---- MODULE Spec2Model ----
(***************************************************************************)
(* A model of the retrieval-augmented generation core of samsara-rag:      *)
(* the vector store (src/vector_store.py), the strategy-selectable query   *)
(* engine (src/rag_engine.py) and the tracker it reports to                *)
(* (src/observability.py).                                                 *)
(*                                                                         *)
(* A text is a sequence of whitespace-separated tokens; two texts are the  *)
(* same string iff they are the same token sequence.  The embedding model  *)
(* and the nearest-neighbour index of ChromaDB are outside the repository: *)
(* they are represented by one fixed, deterministic relevance score.  The  *)
(* chat-completion service is outside too: each call's outcome is chosen   *)
(* nondeterministically among the shapes the code distinguishes.           *)
(***************************************************************************)
EXTENDS Integers, Sequences, FiniteSets, TLC

VARIABLES
    collection,      \* VectorStore.collection: the stored chunks, in insertion order
    full_documents,  \* VectorStore.full_documents: url -> story
    ing,             \* the populate_store call in progress
    q,               \* the RAGEngine.query call in progress
    traces,          \* ObservabilityTracker.traces: trace id -> status
    metrics,         \* ObservabilityTracker.metrics: one entry per end_trace / log_error
    ck,              \* the chunk_text call in progress
    saved_documents, \* full_documents.pkl: what _save_full_documents wrote last
    reader           \* the VectorStore of a second session: its full_documents, once loaded

vars == <<collection, full_documents, ing, q, traces, metrics, ck, saved_documents, reader>>

----
(* Bounds of the model. *)

MaxBatch == 2      \* stories handed to one populate_store call
MaxPopulate == 2   \* populate_store calls in one behaviour of SpecIngest
MaxTopK == 3       \* largest top_k a query is given
MaxSteps == 3      \* largest max_agent_steps a query is given
MaxLen == 5        \* longest text handed to chunk_text
MaxChunk == 3      \* largest chunk_size handed to chunk_text
MaxOverlap == 3    \* largest overlap handed to chunk_text

(* Program constants. *)

BatchSize == 100          \* _add_documents_to_collection: batch_size
DupThresholdTenths == 8   \* _hybrid_retrieval: similarity > 0.8 is a duplicate
ParentHits == 3           \* _agentic_retrieval: chunk_results[:3]
LookBack == 200           \* chunk_text: sentence endings are sought in the last 200 characters

Min(a, b) == IF a < b THEN a ELSE b

----
(* Texts. *)

TFuelUp == <<"Fuel", "cost", "saved", "by", "acme">>
TFuelLo == <<"fuel", "cost", "saved", "by", "acme">>
TFuelFleet == <<"fuel", "cost", "saved", "by", "acme", "fleet">>
TSafety == <<"safety", "cameras">>

LowerTable == ("Fuel" :> "fuel") @@ ("Acme" :> "acme") @@ ("Bolt" :> "bolt")
    @@ ("Company:" :> "company:") @@ ("Industry:" :> "industry:")
    @@ ("Story:" :> "story:") @@ ("Key" :> "key") @@ ("Highlights:" :> "highlights:")
    @@ ("ROI" :> "roi") @@ ("Metrics:" :> "metrics:") @@ ("Logistics" :> "logistics")
    @@ ("Acme:" :> "acme:") @@ ("Bolt:" :> "bolt:") @@ ("Challenges:" :> "challenges:")
    @@ ("Solutions:" :> "solutions:")

\* str.lower() on one token
Lower(w) == IF w \in DOMAIN LowerTable THEN LowerTable[w] ELSE w

\* set(text.lower().split())
WordSet(text) == {Lower(text[i]) : i \in DOMAIN text}

RECURSIVE Flatten(_)
Flatten(ss) == IF ss = <<>> THEN <<>> ELSE Head(ss) \o Flatten(Tail(ss))

\* "\n".join(f"* {x}" for x in items)
RECURSIVE Bullets(_)
Bullets(items) ==
    IF items = <<>> THEN <<>> ELSE <<"*">> \o Head(items) \o Bullets(Tail(items))

----
(* Stories: the records populate_store is given.  content is the story's    *)
(* text as the segments the text splitter cuts it into.                     *)

NoList == <<>>

StoryA == [url |-> "u1", title |-> "a", company_name |-> "Acme", industry |-> "Logistics",
           content |-> <<TFuelUp, TSafety>>, highlights |-> NoList, roi_metrics |-> NoList,
           challenges |-> NoList, solutions |-> NoList, competitor_info |-> <<>>]
StoryB == [url |-> "u2", title |-> "b", company_name |-> "Bolt", industry |-> "Logistics",
           content |-> <<TFuelFleet, TSafety>>, highlights |-> <<<<"safer">>>>,
           roi_metrics |-> NoList, challenges |-> NoList, solutions |-> NoList,
           competitor_info |-> <<>>]
\* the story of u1 with another content
StoryC == [url |-> "u1", title |-> "a", company_name |-> "Acme", industry |-> "Logistics",
           content |-> <<TFuelLo>>, highlights |-> NoList, roi_metrics |-> NoList,
           challenges |-> NoList, solutions |-> NoList, competitor_info |-> <<>>]

\* a story without the key url: story['url'] raises in populate_store
StoryNoUrl == [title |-> "n", company_name |-> "Nox", industry |-> "Retail",
               content |-> <<TSafety>>, highlights |-> NoList, roi_metrics |-> NoList,
               challenges |-> NoList, solutions |-> NoList, competitor_info |-> <<>>]
\* a story whose chunks fill more than one batch of collection.add
StoryLong == [url |-> "u3", title |-> "l", company_name |-> "Long", industry |-> "Retail",
              content |-> [i \in 1..(BatchSize + 1) |-> <<"part", ToString(i)>>],
              highlights |-> NoList, roi_metrics |-> NoList, challenges |-> NoList,
              solutions |-> NoList, competitor_info |-> <<>>]

\* the stories a queried store was populated with, and those of the ingestion runs
Stories == {StoryA, StoryB}
IngestStories == {StoryA, StoryB, StoryC}
BatchStories == {StoryA, StoryNoUrl, StoryLong}
ParentStories == {StoryA, StoryB, StoryNoUrl}

\* story.get(key, default)
Get(story, key, default) == IF key \in DOMAIN story THEN story[key] ELSE default

SeqsUpTo(S, n) == UNION {[1..m -> S] : m \in 0..n}

----
(* src/vector_store.py *)

Document(text, metadata) == [page_content |-> text, metadata |-> metadata]

Meta(story, ctype) ==
    [source |-> Get(story, "url", ""), title |-> story.title, company_name |-> story.company_name,
     industry |-> story.industry, content_type |-> ctype]

\* _create_documents_from_story: one chunk per segment of the content, then one per
\* non-empty structured field
CreateDocumentsFromStory(story) ==
    LET main == [i \in DOMAIN story.content |->
                    Document(story.content[i],
                             Meta(story, "main_content") @@ [chunk_index |-> i - 1])]
        hl == IF story.highlights # <<>>
              THEN <<Document(<<"Key", "highlights", "for", story.company_name \o ":">>
                                  \o Bullets(story.highlights),
                              Meta(story, "highlights"))>>
              ELSE <<>>
        roi == IF story.roi_metrics # <<>>
               THEN <<Document(<<"ROI", "and", "performance", "metrics", "for",
                                 story.company_name \o ":">> \o Bullets(story.roi_metrics),
                               Meta(story, "roi_metrics"))>>
               ELSE <<>>
        cs == IF story.challenges # <<>> \/ story.solutions # <<>>
              THEN <<Document(
                         (IF story.challenges # <<>>
                          THEN <<"Challenges:">> \o Bullets(story.challenges) ELSE <<>>)
                         \o (IF story.solutions # <<>>
                             THEN <<"Solutions:">> \o Bullets(story.solutions) ELSE <<>>),
                         Meta(story, "challenges_solutions"))>>
              ELSE <<>>
        comp == IF story.competitor_info # <<>>
                THEN <<Document(<<story.company_name, "previously", "used", "or",
                                  "switched", "from:">> \o story.competitor_info,
                                Meta(story, "competitor_info"))>>
                ELSE <<>>
    IN  main \o hl \o roi \o cs \o comp

\* _generate_doc_id(f"{source}_{i}"): the digest of the pair, taken as collision-free
GenerateDocId(source, i) == <<source, i>>

\* the ids _add_documents_to_collection gives the documents of one call: the index
\* counts through the whole list of the call
DocIds(documents) ==
    [i \in DOMAIN documents |-> GenerateDocId(documents[i].metadata.source, i - 1)]

IdsOf(coll) == {coll[i].id : i \in DOMAIN coll}

\* collection.add of one batch.  ChromaDB either rejects a batch that holds an id
\* already stored (the error is caught and reported) or skips those ids, depending on
\* its version; stored records are never overwritten.
AddRecords(coll, ids, docs) ==
    LET fresh == SelectSeq([k \in DOMAIN ids |-> k], LAMBDA k : ids[k] \notin IdsOf(coll))
    IN  coll \o [n \in DOMAIN fresh |->
                    [id |-> ids[fresh[n]], text |-> docs[fresh[n]].page_content,
                     metadata |-> docs[fresh[n]].metadata]]

DuplicateModes == {"skip", "reject"}

\* A variant of collection.add that replaces the stored record of an id it is given.
CollectionUpsert(coll, ids, docs, mode) ==
    LET at(id) == CHOOSE k \in DOMAIN ids : ids[k] = id
        replaced == [i \in DOMAIN coll |->
                        IF coll[i].id \in {ids[k] : k \in DOMAIN ids}
                        THEN [id |-> coll[i].id, text |-> docs[at(coll[i].id)].page_content,
                              metadata |-> docs[at(coll[i].id)].metadata]
                        ELSE coll[i]]
    IN  AddRecords(replaced, ids, docs)

CollectionAdd(coll, ids, docs, mode) ==
    IF mode = "reject" /\ \E i \in DOMAIN ids : ids[i] \in IdsOf(coll)
    THEN coll
    ELSE AddRecords(coll, ids, docs)

\* the n nearest chunks to the query: best relevance first, ties in index order
Score(query, text) ==
    Cardinality({i \in DOMAIN query : \E j \in DOMAIN text : text[j] = query[i]})

Best(coll, query, avail) ==
    CHOOSE i \in avail : \A j \in avail :
        \/ Score(query, coll[i].text) > Score(query, coll[j].text)
        \/ Score(query, coll[i].text) = Score(query, coll[j].text) /\ i <= j

RECURSIVE Nearest(_, _, _, _)
Nearest(coll, query, n, avail) ==
    IF n = 0 \/ avail = {} THEN <<>>
    ELSE LET b == Best(coll, query, avail)
         IN  <<Document(coll[b].text, coll[b].metadata)>>
                 \o Nearest(coll, query, n - 1, avail \ {b})

\* A variant of similarity_search that returns hits although collection.query raised.
SimilaritySearchUncaught(coll, query, k, ok) ==
    LET n == Min(k, Len(coll))
    IN  IF n <= 0 THEN <<>> ELSE Nearest(coll, query, n, DOMAIN coll)

\* similarity_search: collection.query for min(k, count) results; ok = FALSE is a
\* collection.query that raises.  ChromaDB refuses to return fewer than one result, so
\* n_results <= 0 raises as well; every error is caught and gives the empty list.
SimilaritySearch(coll, query, k, ok) ==
    LET n == Min(k, Len(coll))
    IN  IF ~ok \/ n <= 0 THEN <<>> ELSE Nearest(coll, query, n, DOMAIN coll)

\* keyword_search: the lower-cased words, then "important: w" for each of them
RECURSIVE Important(_)
Important(ws) == IF ws = <<>> THEN <<>> ELSE <<"important:", Head(ws)>> \o Important(Tail(ws))

ExpandedQuery(query) ==
    LET keywords == [i \in DOMAIN query |-> Lower(query[i])]
    IN  keywords \o Important(keywords)

KeywordSearch(coll, query, k, ok) == SimilaritySearch(coll, ExpandedQuery(query), k, ok)

NoDocument == [absent |-> TRUE]

\* get_full_document
GetFullDocument(fd, source) ==
    IF source \in DOMAIN fd
    THEN LET story == fd[source]
         IN  Document(
                 <<"Company:", story.company_name, "Industry:", story.industry, "Story:">>
                 \o Flatten(story.content)
                 \o (IF story.highlights # <<>>
                     THEN <<"Key", "Highlights:">> \o Bullets(story.highlights) ELSE <<>>)
                 \o (IF story.roi_metrics # <<>>
                     THEN <<"ROI", "Metrics:">> \o Bullets(story.roi_metrics) ELSE <<>>),
                 Meta(story, "full_document"))
    ELSE NoDocument

\* self.full_documents[story['url']] = story
PutStory(fd, story) ==
    [u \in DOMAIN fd \cup {story.url} |-> IF u = story.url THEN story ELSE fd[u]]

----
(* src/utils.py: chunk_text.  A text is a sequence of characters. *)

Chars == {"a", " ", "."}
Terminators == {".", "!", "?"}
Whitespace == {" "}

Texts == UNION {[1..n -> Chars] : n \in 0..MaxLen}

Max(a, b) == IF a >= b THEN a ELSE b

\* str.strip()
RECURSIVE StripLeft(_)
StripLeft(s) == IF s # <<>> /\ Head(s) \in Whitespace THEN StripLeft(Tail(s)) ELSE s

RECURSIVE StripRight(_)
StripRight(s) ==
    IF s # <<>> /\ s[Len(s)] \in Whitespace THEN StripRight(SubSeq(s, 1, Len(s) - 1))
    ELSE s

Strip(s) == StripRight(StripLeft(s))

\* text[start:end], positions counted from 0
Slice(text, start, end) == SubSeq(text, start + 1, Min(end, Len(text)))

\* the early returns of chunk_text, for a text that takes one
TakesEarlyReturn(text, chunk_size) ==
    text = <<>> \/ chunk_size <= 0 \/ Len(text) <= chunk_size

\* A variant of the early returns that strips the text.
EarlyReturnStripped(text, chunk_size) ==
    IF text = <<>> THEN <<>> ELSE <<Strip(text)>>

EarlyReturn(text, chunk_size) ==
    IF text = <<>> THEN <<>> ELSE <<text>>

\* the backward search for a sentence ending: range(end, search_start, -1)
SentenceEnd(text, start, end) ==
    LET search_start == Max(end - LookBack, start)
        found == {i \in (search_start + 1)..end : text[i + 1] \in Terminators}
    IN  IF found = {} THEN -1
        ELSE (CHOOSE i \in found : \A j \in found : j <= i) + 1

\* the end of the chunk that starts at start
ChunkEnd(text, chunk_size, start) ==
    LET end == start + chunk_size
    IN  IF end < Len(text) /\ SentenceEnd(text, start, end) > start
        THEN SentenceEnd(text, start, end)
        ELSE end

\* A variant of the next start position without the clamp to the chunk's end.
NextStartUnclamped(start, chunk_size, overlap, end) == start + chunk_size - overlap

\* "Move start position with overlap"
NextStart(start, chunk_size, overlap, end) == Max(start + chunk_size - overlap, end)

\* spans: the <<start, end>> of every iteration of the loop, in order
CkIdle == [pc |-> "idle", text |-> <<>>, chunk_size |-> 0, overlap |-> 0, start |-> 0,
           chunks |-> <<>>, spans |-> <<>>]

\* chunk_text is called (once in a behaviour)
ChunkTextCall(text, chunk_size, overlap) ==
    /\ ck.pc = "idle"
    /\ ck' = IF TakesEarlyReturn(text, chunk_size)
             THEN [CkIdle EXCEPT !.pc = "done", !.text = text,
                                 !.chunk_size = chunk_size, !.overlap = overlap,
                                 !.chunks = EarlyReturn(text, chunk_size)]
             ELSE [CkIdle EXCEPT !.pc = "loop", !.text = text,
                                 !.chunk_size = chunk_size, !.overlap = overlap]
    /\ UNCHANGED <<collection, full_documents, ing, q, traces, metrics, saved_documents, reader>>

\* one iteration of the while loop, and the return once start has reached len(text)
ChunkTextLoop ==
    /\ ck.pc = "loop"
    /\ ck.start < Len(ck.text)
    /\ LET end == ChunkEnd(ck.text, ck.chunk_size, ck.start)
           chunk == Strip(Slice(ck.text, ck.start, end))
           start == NextStart(ck.start, ck.chunk_size, ck.overlap, end)
       IN  ck' = [ck EXCEPT !.chunks = IF chunk # <<>> THEN Append(@, chunk) ELSE @,
                            !.spans = Append(@, <<ck.start, end>>),
                            !.start = start,
                            !.pc = IF start >= Len(ck.text) THEN "done" ELSE "loop"]
    /\ UNCHANGED <<collection, full_documents, ing, q, traces, metrics, saved_documents, reader>>

----
(* populate_store, step by step. *)

\* added: for every batch handed to collection.add so far, whether the add returned;
\* failed: some collection.add has raised for a reason of its own, in this call or an
\* earlier one; count_before and known_before: the store as the call found it
IngIdle == [pc |-> "idle", stories |-> <<>>, i |-> 1, all_documents |-> <<>>, b |-> 0,
            added |-> <<>>, failed |-> FALSE, count_before |-> 0, known_before |-> <<>>,
            calls |-> 0]

\* populate_store is called
PopulateStore(stories) ==
    /\ ing.pc \in {"idle", "done"}
    /\ ing.calls < MaxPopulate
    /\ ing' = [pc |-> "stories", stories |-> stories, i |-> 1, all_documents |-> <<>>,
               b |-> 0, added |-> <<>>, failed |-> ing.failed, count_before |-> Len(collection),
               known_before |-> full_documents, calls |-> ing.calls + 1]
    /\ UNCHANGED <<collection, full_documents, q, traces, metrics, ck, saved_documents, reader>>

\* one iteration of the loop over the stories; story['url'] raises for a story without
\* the key, after its documents were made, and the exception is caught and reported
ProcessStory ==
    /\ ing.pc = "stories"
    /\ ing.i <= Len(ing.stories)
    /\ LET story == ing.stories[ing.i]
       IN  /\ ing' = [ing EXCEPT !.all_documents = @ \o CreateDocumentsFromStory(story),
                                 !.i = @ + 1]
           /\ full_documents' = IF "url" \in DOMAIN story
                                 THEN PutStory(full_documents, story)
                                 ELSE full_documents
    /\ UNCHANGED <<collection, q, traces, metrics, ck, saved_documents, reader>>

\* whether collection.add of the batch returns: it raises for a reason of its own
\* (stored = FALSE), or because the batch holds a stored id and duplicates are rejected
AddReturns(coll, ids, stored, mode) ==
    stored /\ ~(mode = "reject" /\ \E i \in DOMAIN ids : ids[i] \in IdsOf(coll))

\* A variant of the batch step in which a collection.add that raises ends the loop
\* over the batches.
AddBatchAborting(stored, mode) ==
    /\ ing.pc = "stories"
    /\ ing.i > Len(ing.stories)
    /\ ing.b < Len(ing.all_documents)
    /\ LET ids == DocIds(ing.all_documents)
           hi == Min(ing.b + BatchSize, Len(ids))
           returns == AddReturns(collection, SubSeq(ids, ing.b + 1, hi), stored, mode)
       IN  /\ collection' =
                  IF stored
                  THEN CollectionAdd(collection, SubSeq(ids, ing.b + 1, hi),
                                     SubSeq(ing.all_documents, ing.b + 1, hi), mode)
                  ELSE collection
           /\ ing' = [ing EXCEPT !.b = IF returns THEN hi ELSE Len(ids),
                                 !.added = Append(@, returns),
                                 !.failed = @ \/ ~stored]
    /\ UNCHANGED <<full_documents, q, traces, metrics, ck, saved_documents, reader>>

\* one batch of _add_documents_to_collection; stored = FALSE is a collection.add that
\* raises (embedding or storage error), which is caught and reported
AddBatch(stored, mode) ==
    /\ ing.pc = "stories"
    /\ ing.i > Len(ing.stories)
    /\ ing.b < Len(ing.all_documents)
    /\ LET ids == DocIds(ing.all_documents)
           hi == Min(ing.b + BatchSize, Len(ids))
       IN  /\ collection' =
                  IF stored
                  THEN CollectionAdd(collection, SubSeq(ids, ing.b + 1, hi),
                                     SubSeq(ing.all_documents, ing.b + 1, hi), mode)
                  ELSE collection
           /\ ing' = [ing EXCEPT !.b = hi,
                                 !.added = Append(@, AddReturns(collection,
                                                     SubSeq(ids, ing.b + 1, hi),
                                                     stored, mode)),
                                 !.failed = @ \/ ~stored]
    /\ UNCHANGED <<full_documents, q, traces, metrics, ck, saved_documents, reader>>

\* populate_store returns
PopulateReturn ==
    /\ ing.pc = "stories"
    /\ ing.i > Len(ing.stories)
    /\ ing.b >= Len(ing.all_documents)
    /\ ing' = [ing EXCEPT !.pc = "done"]
    /\ saved_documents' = IF ing.all_documents # <<>> THEN full_documents
                          ELSE saved_documents
    /\ UNCHANGED <<collection, full_documents, q, traces, metrics, ck, reader>>


----
(* src/rag_engine.py: the retrieval strategies. *)

Questions == {<<"Fuel", "cost">>, <<"safety", "fleet">>}

Strategies == {"naive", "parent_document", "hybrid", "agentic", "other"}
Methods == {"semantic", "keyword", "hybrid"}
Thresholds == {5, 7, 10}   \* agent_confidence_threshold, in tenths

\* RAGConfig with its defaults (the fields the retrieval reads; confidences in tenths)
DefaultConfig ==
    [strategy |-> "naive", top_k |-> 5, retrieval_method |-> "semantic",
     max_agent_steps |-> 3, agent_confidence_threshold |-> 7, enable_reflection |-> TRUE]

\* the configs a caller passes (top_k and max_agent_steps from 1 up, as the sliders of
\* src/app.py give them); the agent's fields vary with the agentic strategy only, whose
\* fallback is run with the semantic and the keyword method
Configs ==
    {DefaultConfig} \cup
    {c \in [strategy : Strategies, top_k : 1..MaxTopK, retrieval_method : Methods,
            max_agent_steps : 1..MaxSteps, agent_confidence_threshold : Thresholds,
            enable_reflection : BOOLEAN] :
        IF c.strategy = "agentic" THEN c.retrieval_method # "hybrid"
        ELSE
            /\ c.max_agent_steps = DefaultConfig.max_agent_steps
            /\ c.agent_confidence_threshold = DefaultConfig.agent_confidence_threshold
            /\ c.enable_reflection = DefaultConfig.enable_reflection}

\* seq[:n] for n >= 0
Take(seq, n) == SubSeq(seq, 1, Min(n, Len(seq)))

HasText(docs, text) == \E i \in DOMAIN docs : docs[i].page_content = text

\* A variant of the merge loop that keeps every document, seen or not.
RECURSIVE MergeAll(_, _, _)
MergeAll(all_results, results, top_k) ==
    IF all_results = <<>> THEN results
    ELSE LET kept == Append(results, Head(all_results))
         IN  IF Len(kept) >= top_k THEN kept
             ELSE MergeAll(Tail(all_results), kept, top_k)

\* the merge loop of _naive_retrieval: keep a document whose text was not seen, stop
\* as soon as top_k are kept
RECURSIVE MergeUnique(_, _, _)
MergeUnique(all_results, results, top_k) ==
    IF all_results = <<>> THEN results
    ELSE LET doc == Head(all_results)
             kept == IF HasText(results, doc.page_content) THEN results
                     ELSE Append(results, doc)
         IN  IF Len(kept) >= top_k THEN kept
             ELSE MergeUnique(Tail(all_results), kept, top_k)

\* A variant of _naive_retrieval that removes repeated texts for every retrieval_method.
NaiveRetrievalDedupAll(coll, question, config, ok) ==
    IF config.retrieval_method = "semantic"
    THEN MergeUnique(SimilaritySearch(coll, question, config.top_k, ok), <<>>,
                     config.top_k)
    ELSE IF config.retrieval_method = "keyword"
    THEN MergeUnique(KeywordSearch(coll, question, config.top_k, ok), <<>>, config.top_k)
    ELSE MergeUnique(SimilaritySearch(coll, question, config.top_k \div 2, ok)
                         \o KeywordSearch(coll, question, config.top_k \div 2, ok),
                     <<>>, config.top_k)

\* _naive_retrieval; ok = FALSE: the collection queries of this call raise
NaiveRetrieval(coll, question, config, ok) ==
    IF config.retrieval_method = "semantic"
    THEN SimilaritySearch(coll, question, config.top_k, ok)
    ELSE IF config.retrieval_method = "keyword"
    THEN KeywordSearch(coll, question, config.top_k, ok)
    ELSE MergeUnique(SimilaritySearch(coll, question, config.top_k \div 2, ok)
                         \o KeywordSearch(coll, question, config.top_k \div 2, ok),
                     <<>>, config.top_k)

\* A variant of the loop that fetches the full document of every hit, also of a source
\* already used.
RECURSIVE ParentLoopRepeating(_, _, _, _, _)
ParentLoopRepeating(chunks, parent_docs, seen_sources, fd, top_k) ==
    IF chunks = <<>> THEN parent_docs
    ELSE LET source == Head(chunks).metadata.source
         IN  IF source # ""
             THEN LET full_doc == GetFullDocument(fd, source)
                      docs == IF full_doc # NoDocument
                              THEN Append(parent_docs, full_doc) ELSE parent_docs
                  IN  IF Len(docs) >= top_k THEN docs
                      ELSE ParentLoopRepeating(Tail(chunks), docs, seen_sources, fd, top_k)
             ELSE ParentLoopRepeating(Tail(chunks), parent_docs, seen_sources, fd, top_k)

\* the loop of _parent_document_retrieval over the chunk hits
RECURSIVE ParentLoop(_, _, _, _, _)
ParentLoop(chunks, parent_docs, seen_sources, fd, top_k) ==
    IF chunks = <<>> THEN parent_docs
    ELSE LET source == Head(chunks).metadata.source
         IN  IF source # "" /\ source \notin seen_sources
             THEN LET full_doc == GetFullDocument(fd, source)
                      docs == IF full_doc # NoDocument
                              THEN Append(parent_docs, full_doc) ELSE parent_docs
                      seen == IF full_doc # NoDocument
                              THEN seen_sources \cup {source} ELSE seen_sources
                  IN  IF Len(docs) >= top_k THEN docs
                      ELSE ParentLoop(Tail(chunks), docs, seen, fd, top_k)
             ELSE ParentLoop(Tail(chunks), parent_docs, seen_sources, fd, top_k)

\* _parent_document_retrieval
ParentDocumentRetrieval(coll, fd, question, config, ok) ==
    ParentLoop(SimilaritySearch(coll, question, config.top_k * 2, ok), <<>>, {}, fd,
               config.top_k)

\* _calculate_similarity, as the fraction <<numerator, denominator>>
CalculateSimilarity(text1, text2) ==
    LET words1 == WordSet(text1)
        words2 == WordSet(text2)
    IN  IF words1 = {} \/ words2 = {} THEN <<0, 1>>
        ELSE <<Cardinality(words1 \cap words2), Cardinality(words1 \cup words2)>>

\* A variant of the duplicate test with the threshold 0.9.
IsDuplicateAboveNine(text1, text2) ==
    LET sim == CalculateSimilarity(text1, text2)
    IN  10 * sim[1] > 9 * sim[2]

\* _calculate_similarity(...) > 0.8
IsDuplicate(text1, text2) ==
    LET sim == CalculateSimilarity(text1, text2)
    IN  10 * sim[1] > DupThresholdTenths * sim[2]

\* the deduplication loop of _hybrid_retrieval
RECURSIVE DedupSimilar(_, _, _)
DedupSimilar(all_results, unique_results, top_k) ==
    IF all_results = <<>> THEN unique_results
    ELSE LET doc == Head(all_results)
             is_duplicate == \E i \in DOMAIN unique_results :
                                 IsDuplicate(doc.page_content, unique_results[i].page_content)
             kept == IF is_duplicate THEN unique_results ELSE Append(unique_results, doc)
         IN  IF Len(kept) >= top_k THEN kept
             ELSE DedupSimilar(Tail(all_results), kept, top_k)

\* A variant of _hybrid_retrieval that ranks the parent documents first.
HybridRetrievalParentFirst(coll, fd, question, config, ok) ==
    DedupSimilar(ParentDocumentRetrieval(coll, fd, question, config, ok)
                     \o NaiveRetrieval(coll, question, config, ok),
                 <<>>, config.top_k)

\* _hybrid_retrieval
HybridRetrieval(coll, fd, question, config, ok) ==
    DedupSimilar(NaiveRetrieval(coll, question, config, ok)
                     \o ParentDocumentRetrieval(coll, fd, question, config, ok),
                 <<>>, config.top_k)

\* A variant of the dispatch whose else branch retrieves with retrieval_method semantic.
RetrieveUnknownSemantic(coll, fd, question, config, ok) ==
    IF config.strategy = "naive" THEN NaiveRetrieval(coll, question, config, ok)
    ELSE IF config.strategy = "parent_document"
    THEN ParentDocumentRetrieval(coll, fd, question, config, ok)
    ELSE IF config.strategy = "hybrid" THEN HybridRetrieval(coll, fd, question, config, ok)
    ELSE SimilaritySearch(coll, question, config.top_k, ok)

\* the strategy dispatch of query, for the strategies that are one call
Retrieve(coll, fd, question, config, ok) ==
    IF config.strategy = "naive" THEN NaiveRetrieval(coll, question, config, ok)
    ELSE IF config.strategy = "parent_document"
    THEN ParentDocumentRetrieval(coll, fd, question, config, ok)
    ELSE IF config.strategy = "hybrid" THEN HybridRetrieval(coll, fd, question, config, ok)
    ELSE NaiveRetrieval(coll, question, config, ok)

----
(* src/rag_engine.py: the agent. *)

\* A JSON value the planning call can return: an object with some of the keys, or a
\* value that is no object.
Object(fields) == [kind |-> "object", fields |-> fields]
JsonArray == [kind |-> "array"]

JsonPlans ==
    {Object([complexity |-> "complex", sub_queries |-> <<>>, reasoning |-> "r"]),
     Object([complexity |-> "complex", sub_queries |-> <<>>]),
     Object([sub_queries |-> <<>>, reasoning |-> "r"]),
     JsonArray}

\* What a chat-completion call can do: raise, or return a message
PlanOutcomes ==
    {[kind |-> "error"], [kind |-> "text"]} \cup {[kind |-> "json", value |-> j] : j \in JsonPlans}

\* _agent_plan
AgentPlan(question, outcome) ==
    IF outcome.kind = "error"
    THEN Object([complexity |-> "simple", sub_queries |-> <<question>>,
                 reasoning |-> "Planning failed"])
    ELSE IF outcome.kind = "text"
    THEN Object([complexity |-> "simple", sub_queries |-> <<question>>,
                 reasoning |-> "plan_text"])
    ELSE outcome.value

\* plan['reasoning'] of _agentic_retrieval evaluates without raising
HasReasoning(plan) == plan.kind = "object" /\ "reasoning" \in DOMAIN plan.fields

\* plan.get('complexity')
Complexity(plan) ==
    IF "complexity" \in DOMAIN plan.fields THEN plan.fields.complexity ELSE "None"

\* A variant of _agent_decide_action that stops once a step has found documents.
AgentDecideActionByScratchpad(question, plan, scratchpad, step, config) ==
    IF step = 0
    THEN [type |-> "retrieve_semantic", query |-> question, confidence |-> 5]
    ELSE IF scratchpad # <<>> /\ scratchpad[Len(scratchpad)].docs_found >= config.top_k
    THEN [type |-> "stop", confidence |-> 9]
    ELSE IF step = 1 /\ Complexity(plan) = "complex"
    THEN [type |-> "retrieve_parent", query |-> question, confidence |-> 7]
    ELSE IF step >= 2
    THEN [type |-> "stop", confidence |-> 9]
    ELSE [type |-> "retrieve_semantic", query |-> question, confidence |-> 6]

\* A variant of the decision that stops one step later.
AgentDecideActionStopAtThree(question, plan, scratchpad, step, config) ==
    IF step = 0
    THEN [type |-> "retrieve_semantic", query |-> question, confidence |-> 5]
    ELSE IF step = 1 /\ Complexity(plan) = "complex"
    THEN [type |-> "retrieve_parent", query |-> question, confidence |-> 7]
    ELSE IF step >= 3
    THEN [type |-> "stop", confidence |-> 9]
    ELSE [type |-> "retrieve_semantic", query |-> question, confidence |-> 6]

\* _agent_decide_action; a stop action has no query
AgentDecideAction(question, plan, scratchpad, step, config) ==
    IF step = 0
    THEN [type |-> "retrieve_semantic", query |-> question, confidence |-> 5]
    ELSE IF step = 1 /\ Complexity(plan) = "complex"
    THEN [type |-> "retrieve_parent", query |-> question, confidence |-> 7]
    ELSE IF step >= 2
    THEN [type |-> "stop", confidence |-> 9]
    ELSE [type |-> "retrieve_semantic", query |-> question, confidence |-> 6]

\* action.get('query', question)
ActionQuery(action, question) ==
    IF "query" \in DOMAIN action THEN action.query ELSE question

\* the retrieve_parent branch: the full documents of the first three hits
RECURSIVE FullDocsOf(_, _)
FullDocsOf(chunks, fd) ==
    IF chunks = <<>> THEN <<>>
    ELSE LET source == Head(chunks).metadata.source
             full_doc == IF source # "" THEN GetFullDocument(fd, source) ELSE NoDocument
         IN  (IF full_doc # NoDocument THEN <<full_doc>> ELSE <<>>)
                 \o FullDocsOf(Tail(chunks), fd)

\* the documents one non-stop action retrieves
ExecuteAction(coll, fd, question, action, config, ok) ==
    IF action.type = "retrieve_semantic"
    THEN SimilaritySearch(coll, ActionQuery(action, question), config.top_k, ok)
    ELSE IF action.type = "retrieve_parent"
    THEN FullDocsOf(Take(SimilaritySearch(coll, ActionQuery(action, question),
                                          config.top_k, ok), ParentHits), fd)
    ELSE SimilaritySearch(coll, question, config.top_k, ok)

\* A variant of the accumulation that appends every document, seen or not.
AddAll(all_documents, docs) == all_documents \o docs

\* "Add unique documents"
RECURSIVE AddUnique(_, _)
AddUnique(all_documents, docs) ==
    IF docs = <<>> THEN all_documents
    ELSE AddUnique(IF HasText(all_documents, Head(docs).page_content) THEN all_documents
                   ELSE Append(all_documents, Head(docs)),
                   Tail(docs))

\* A variant of the agent's result whose fallback retrieves with retrieval_method
\* semantic.
AgenticResultSemantic(coll, question, config, all_documents, ok) ==
    LET reflected == IF config.enable_reflection /\ Len(all_documents) > 0
                     THEN Take(all_documents, config.top_k * 2) ELSE all_documents
    IN  IF reflected # <<>> THEN Take(reflected, config.top_k * 2)
        ELSE SimilaritySearch(coll, question, config.top_k, ok)

\* A variant of the return whose reflection keeps top_k documents.
AgenticResultReflectTopK(coll, question, config, all_documents, ok) ==
    LET reflected == IF config.enable_reflection /\ Len(all_documents) > 0
                     THEN Take(all_documents, config.top_k) ELSE all_documents
    IN  IF reflected # <<>> THEN Take(reflected, config.top_k * 2)
        ELSE NaiveRetrieval(coll, question, config, ok)

\* what _agentic_retrieval returns once its loop has ended with all_documents
AgenticResult(coll, question, config, all_documents, ok) ==
    LET reflected == IF config.enable_reflection /\ Len(all_documents) > 0
                     THEN Take(all_documents, config.top_k * 2) ELSE all_documents
    IN  IF reflected # <<>> THEN Take(reflected, config.top_k * 2)
        ELSE NaiveRetrieval(coll, question, config, ok)

----
(* src/rag_engine.py: the response; src/observability.py: the tracker. *)

\* _prepare_context: the context block, token by token
RECURSIVE ContextParts(_, _)
ContextParts(documents, i) ==
    IF documents = <<>> THEN <<>>
    ELSE LET doc == Head(documents)
         IN  <<"---", "Source", ToString(i) \o ":", doc.metadata.company_name,
               "(" \o doc.metadata.industry \o ")", "---", "URL:", doc.metadata.source,
               "Content:">> \o doc.page_content \o ContextParts(Tail(documents), i + 1)

PrepareContext(documents) == ContextParts(documents, 1)

SourcesOf(documents) == [i \in DOMAIN documents |-> documents[i].metadata.source]

\* the outcomes of the answering chat-completion call: an exception, or an answer
\* whose usage record gives the tokens used
GenOutcomes == {[kind |-> "error"], [kind |-> "answer", total_tokens |-> 42]}

\* A variant of _generate_response that names every source URL once and reports no
\* context when the chat-completion call failed.
RECURSIVE UniqueSources(_, _)
UniqueSources(documents, seen) ==
    IF documents = <<>> THEN <<>>
    ELSE LET source == Head(documents).metadata.source
         IN  (IF source \in seen THEN <<>> ELSE <<source>>)
                 \o UniqueSources(Tail(documents), seen \cup {source})

GenerateResponseUniqueSources(question, documents, config, outcome) ==
    IF outcome.kind = "error"
    THEN [answer |-> "error", sources |-> UniqueSources(documents, {}),
          tokens_used |-> 0, context_length |-> 0]
    ELSE [answer |-> "generated", sources |-> UniqueSources(documents, {}),
          tokens_used |-> outcome.total_tokens,
          context_length |-> Len(PrepareContext(documents))]

\* _generate_response (context_length counts the tokens of the context block)
GenerateResponse(question, documents, config, outcome) ==
    LET context == PrepareContext(documents)
    IN  IF outcome.kind = "error"
        THEN [answer |-> "error", sources |-> SourcesOf(documents), tokens_used |-> 0,
              context_length |-> Len(context)]
        ELSE [answer |-> "generated", sources |-> SourcesOf(documents),
              tokens_used |-> outcome.total_tokens, context_length |-> Len(context)]

\* start_trace: str(uuid.uuid4()), an id no trace has
NewTraceId(tr) == Cardinality(DOMAIN tr) + 1

\* end_trace and log_error: the trace's status, and one metric per call
SetStatus(tr, trace_id, status) ==
    [t \in DOMAIN tr |-> IF t = trace_id THEN status ELSE tr[t]]

EndTraceTraces(tr, trace_id) ==
    IF trace_id \in DOMAIN tr THEN SetStatus(tr, trace_id, "completed") ELSE tr

EndTraceMetrics(tr, ms, trace_id) ==
    IF trace_id \in DOMAIN tr THEN Append(ms, [trace_id |-> trace_id, success |-> TRUE])
    ELSE ms

LogErrorTraces(tr, trace_id) ==
    IF trace_id \in DOMAIN tr THEN SetStatus(tr, trace_id, "error") ELSE tr

LogErrorMetrics(tr, ms, trace_id) ==
    IF trace_id \in DOMAIN tr THEN Append(ms, [trace_id |-> trace_id, success |-> FALSE])
    ELSE ms

----
(* RAGEngine.query, step by step. *)

NoResponse == [answer |-> "none"]
NoPlan == [kind |-> "none"]

\* gen_calls: the chat-completion calls this query has made; searches: for each step of
\* the query that searched the index, in order, whether the index answered
QIdle == [pc |-> "idle", question |-> <<>>, config |-> DefaultConfig,
          trace_id |-> 0, plan |-> NoPlan, step |-> 0, all_documents |-> <<>>,
          scratchpad |-> <<>>, documents |-> <<>>, response |-> NoResponse,
          gen_calls |-> 0, searches |-> <<>>]

\* a second session before its VectorStore is constructed
NoSession == [loaded |-> FALSE, full_documents |-> <<>>]

\* VectorStore.__init__ of the second session: its full_documents is what
\* full_documents.pkl holds (nothing, when the file is not there)
SessionInit ==
    /\ ~reader.loaded
    /\ reader' = [loaded |-> TRUE, full_documents |-> saved_documents]
    /\ UNCHANGED <<collection, full_documents, ing, q, traces, metrics, ck, saved_documents>>

\* query is called (once in a behaviour): the config is read and the trace started
QueryStart(question, config) ==
    /\ q.pc = "idle"
    /\ q' = [QIdle EXCEPT !.pc = IF config.strategy = "agentic" THEN "plan" ELSE "retrieve",
                          !.question = question, !.config = config,
                          !.trace_id = NewTraceId(traces)]
    /\ traces' = (NewTraceId(traces) :> "started") @@ traces
    /\ UNCHANGED <<collection, full_documents, ing, metrics, ck, saved_documents, reader>>

\* A variant of the retrieval step in which a search of a store without chunks raises
\* to query's handler.
RetrieveDocumentsRaising(ok) ==
    /\ q.pc = "retrieve"
    /\ IF collection = <<>>
       THEN /\ q' = [q EXCEPT !.searches = <<ok>>, !.pc = "raised"]
            /\ traces' = LogErrorTraces(traces, q.trace_id)
            /\ metrics' = LogErrorMetrics(traces, metrics, q.trace_id)
       ELSE /\ q' = [q EXCEPT !.documents = Retrieve(collection, full_documents,
                                                     q.question, q.config, ok),
                              !.searches = <<ok>>,
                              !.pc = "generate"]
            /\ UNCHANGED <<traces, metrics>>
    /\ UNCHANGED <<collection, full_documents, ing, ck, saved_documents, reader>>

\* A variant of the retrieval step that takes the chunks it returns out of the
\* collection.
RetrieveDocumentsConsuming(ok) ==
    /\ q.pc = "retrieve"
    /\ LET documents == Retrieve(collection, full_documents, q.question, q.config, ok)
       IN  /\ q' = [q EXCEPT !.documents = documents, !.searches = <<ok>>,
                             !.pc = "generate"]
           /\ collection' = SelectSeq(collection, LAMBDA r : ~HasText(documents, r.text))
    /\ UNCHANGED <<full_documents, ing, traces, metrics, ck, saved_documents, reader>>

\* the retrieval step of a query of the second session: the collection is the one on
\* disk, the full documents are the session's own
SessionRetrieveDocuments(ok) ==
    /\ q.pc = "retrieve"
    /\ reader.loaded
    /\ q' = [q EXCEPT !.documents = Retrieve(collection, reader.full_documents, q.question,
                                             q.config, ok),
                      !.searches = <<ok>>,
                      !.pc = "generate"]
    /\ UNCHANGED <<collection, full_documents, ing, traces, metrics, ck, saved_documents,
                   reader>>

\* the retrieval of the naive, parent_document, hybrid and unknown strategies
RetrieveDocuments(ok) ==
    /\ q.pc = "retrieve"
    /\ q' = [q EXCEPT !.documents = Retrieve(collection, full_documents, q.question,
                                             q.config, ok),
                      !.searches = <<ok>>,
                      !.pc = "generate"]
    /\ UNCHANGED <<collection, full_documents, ing, traces, metrics, ck, saved_documents, reader>>

\* A variant of the planning step whose exception leaves query without log_error.
PlanQueryUnlogged(outcome) ==
    /\ q.pc = "plan"
    /\ LET plan == AgentPlan(q.question, outcome)
       IN  q' = [q EXCEPT !.plan = plan, !.gen_calls = @ + 1,
                          !.pc = IF HasReasoning(plan) THEN "loop" ELSE "raised"]
    /\ UNCHANGED <<collection, full_documents, ing, traces, metrics, ck, saved_documents, reader>>

\* _agentic_retrieval up to its loop: the planning call, then plan['reasoning'] is
\* shown; an exception there leaves query through its handler (log_error, raise)
PlanQuery(outcome) ==
    /\ q.pc = "plan"
    /\ LET plan == AgentPlan(q.question, outcome)
       IN  IF HasReasoning(plan)
           THEN /\ q' = [q EXCEPT !.plan = plan, !.gen_calls = @ + 1, !.pc = "loop"]
                /\ UNCHANGED <<traces, metrics>>
           ELSE /\ q' = [q EXCEPT !.plan = plan, !.gen_calls = @ + 1, !.pc = "raised"]
                /\ traces' = LogErrorTraces(traces, q.trace_id)
                /\ metrics' = LogErrorMetrics(traces, metrics, q.trace_id)
    /\ UNCHANGED <<collection, full_documents, ing, ck, saved_documents, reader>>

\* A variant of the loop's iteration that ends the loop only when the confidence is
\* greater than the threshold.
AgentStepStrict(ok) ==
    /\ q.pc = "loop"
    /\ q.step < q.config.max_agent_steps
    /\ LET action == AgentDecideAction(q.question, q.plan, q.scratchpad, q.step, q.config)
           docs == ExecuteAction(collection, full_documents, q.question, action,
                                 q.config, ok)
       IN  IF action.type = "stop"
           THEN q' = [q EXCEPT !.pc = "finish"]
           ELSE q' = [q EXCEPT
                        !.all_documents = AddUnique(@, docs),
                        !.scratchpad = Append(@, [step |-> q.step + 1,
                                                  action |-> action.type,
                                                  docs_found |-> Len(docs)]),
                        !.searches = Append(@, ok),
                        !.step = @ + 1,
                        !.pc = IF action.confidence > q.config.agent_confidence_threshold
                               THEN "finish" ELSE "loop"]
    /\ UNCHANGED <<collection, full_documents, ing, traces, metrics, ck, saved_documents, reader>>

\* one iteration of the agent's loop
AgentStep(ok) ==
    /\ q.pc = "loop"
    /\ q.step < q.config.max_agent_steps
    /\ LET action == AgentDecideAction(q.question, q.plan, q.scratchpad, q.step, q.config)
           docs == ExecuteAction(collection, full_documents, q.question, action,
                                 q.config, ok)
       IN  IF action.type = "stop"
           THEN q' = [q EXCEPT !.pc = "finish"]
           ELSE q' = [q EXCEPT
                        !.all_documents = AddUnique(@, docs),
                        !.scratchpad = Append(@, [step |-> q.step + 1,
                                                  action |-> action.type,
                                                  docs_found |-> Len(docs)]),
                        !.searches = Append(@, ok),
                        !.step = @ + 1,
                        !.pc = IF action.confidence >= q.config.agent_confidence_threshold
                               THEN "finish" ELSE "loop"]
    /\ UNCHANGED <<collection, full_documents, ing, traces, metrics, ck, saved_documents, reader>>

\* the loop has ended: reflection, and the fallback to naive retrieval
AgentFinish(ok) ==
    /\ \/ q.pc = "finish"
       \/ q.pc = "loop" /\ q.step >= q.config.max_agent_steps
    /\ q' = [q EXCEPT !.documents = AgenticResult(collection, q.question, q.config,
                                                  q.all_documents, ok),
                      !.searches = IF q.all_documents = <<>> THEN Append(@, ok) ELSE @,
                      !.pc = "generate"]
    /\ UNCHANGED <<collection, full_documents, ing, traces, metrics, ck, saved_documents, reader>>

\* A variant of the answering step in which an exception of the chat-completion call
\* reaches query's handler.
GeneratePropagating(outcome) ==
    /\ q.pc = "generate"
    /\ IF outcome.kind = "error"
       THEN /\ q' = [q EXCEPT !.gen_calls = @ + 1, !.pc = "raised"]
            /\ traces' = LogErrorTraces(traces, q.trace_id)
            /\ metrics' = LogErrorMetrics(traces, metrics, q.trace_id)
       ELSE /\ q' = [q EXCEPT !.response = GenerateResponse(q.question, q.documents,
                                                            q.config, outcome),
                              !.gen_calls = @ + 1, !.pc = "returned"]
            /\ traces' = EndTraceTraces(traces, q.trace_id)
            /\ metrics' = EndTraceMetrics(traces, metrics, q.trace_id)
    /\ UNCHANGED <<collection, full_documents, ing, ck, saved_documents, reader>>

\* _generate_response, end_trace, and query returns the response
Generate(outcome) ==
    /\ q.pc = "generate"
    /\ LET response == GenerateResponse(q.question, q.documents, q.config, outcome)
       IN  q' = [q EXCEPT !.response = response, !.gen_calls = @ + 1, !.pc = "returned"]
    /\ traces' = EndTraceTraces(traces, q.trace_id)
    /\ metrics' = EndTraceMetrics(traces, metrics, q.trace_id)
    /\ UNCHANGED <<collection, full_documents, ing, ck, saved_documents, reader>>

\* the store after one populate_store call on an empty store
RECURSIVE AllDocuments(_)
AllDocuments(stories) ==
    IF stories = <<>> THEN <<>>
    ELSE CreateDocumentsFromStory(Head(stories)) \o AllDocuments(Tail(stories))

RECURSIVE PutStories(_, _)
PutStories(fd, stories) ==
    IF stories = <<>> THEN fd
    ELSE PutStories(IF "url" \in DOMAIN Head(stories) THEN PutStory(fd, Head(stories))
                    ELSE fd,
                    Tail(stories))

Init ==
    \E stories \in SeqsUpTo(Stories, MaxBatch) :
        /\ collection = AddRecords(<<>>, DocIds(AllDocuments(stories)), AllDocuments(stories))
        /\ full_documents = PutStories(<<>>, stories)
        /\ ing = IngIdle
        /\ q = QIdle
        /\ traces = <<>>
        /\ metrics = <<>>
        /\ ck = CkIdle
        /\ saved_documents = full_documents
        /\ reader = NoSession

Next ==
    \/ \E question \in Questions, config \in Configs : QueryStart(question, config)
    \/ \E ok \in BOOLEAN : RetrieveDocuments(ok)
    \/ \E outcome \in PlanOutcomes : PlanQuery(outcome)
    \/ \E ok \in BOOLEAN : AgentStep(ok)
    \/ \E ok \in BOOLEAN : AgentFinish(ok)
    \/ \E outcome \in GenOutcomes : Generate(outcome)

Spec == Init /\ [][Next]_vars

\* collection.query is called without a timeout: a query of the index that never
\* responds leaves the query call waiting in similarity_search
SearchNeverResponds ==
    /\ \/ q.pc = "retrieve"
       \/ /\ q.pc = "loop"
          /\ q.step < q.config.max_agent_steps
          /\ AgentDecideAction(q.question, q.plan, q.scratchpad, q.step,
                               q.config).type # "stop"
    /\ q' = [q EXCEPT !.pc = "blocked"]
    /\ UNCHANGED <<collection, full_documents, ing, traces, metrics, ck, saved_documents, reader>>

NextBlocking == Next \/ SearchNeverResponds

\* the query engine with an index that may not respond; the engine takes its next
\* step whenever it has one
SpecBlocking == Init /\ [][NextBlocking]_vars /\ WF_vars(NextBlocking)

\* parent_document queries on a store that was populated, lost its file of full
\* documents (_load_full_documents found none at a restart) and was populated again
InitParent ==
    \E before, after \in SeqsUpTo(ParentStories, MaxBatch) :
        /\ collection = AddRecords(AddRecords(<<>>, DocIds(AllDocuments(before)),
                                              AllDocuments(before)),
                                   DocIds(AllDocuments(after)), AllDocuments(after))
        /\ full_documents = PutStories(<<>>, after)
        /\ ing = IngIdle
        /\ q = QIdle
        /\ traces = <<>>
        /\ metrics = <<>>
        /\ ck = CkIdle
        /\ saved_documents = full_documents
        /\ reader = NoSession

ParentConfigs ==
    {c \in Configs : c.strategy = "parent_document" /\ c.retrieval_method = "semantic"}

NextParent ==
    \/ \E question \in Questions, config \in ParentConfigs : QueryStart(question, config)
    \/ \E ok \in BOOLEAN : RetrieveDocuments(ok)
    \/ \E outcome \in GenOutcomes : Generate(outcome)

SpecParent == InitParent /\ [][NextParent]_vars

\* one populate_store call of a session interleaved with the construction of a second
\* session's VectorStore and one parent_document query of that session, on a store that
\* holds nothing or one story
InitConcurrent ==
    \E stories \in SeqsUpTo(IngestStories, 1) :
        /\ collection = AddRecords(<<>>, DocIds(AllDocuments(stories)), AllDocuments(stories))
        /\ full_documents = PutStories(<<>>, stories)
        /\ ing = IngIdle
        /\ q = QIdle
        /\ traces = <<>>
        /\ metrics = <<>>
        /\ ck = CkIdle
        /\ saved_documents = full_documents
        /\ reader = NoSession

NextConcurrent ==
    \/ \E stories \in SeqsUpTo(IngestStories, MaxBatch) :
           ing.pc = "idle" /\ PopulateStore(stories)
    \/ ProcessStory
    \/ \E stored \in BOOLEAN, mode \in DuplicateModes : AddBatch(stored, mode)
    \/ PopulateReturn
    \/ SessionInit
    \/ \E question \in Questions, config \in ParentConfigs :
           reader.loaded /\ QueryStart(question, config)
    \/ \E ok \in BOOLEAN : SessionRetrieveDocuments(ok)
    \/ \E outcome \in GenOutcomes : Generate(outcome)

SpecConcurrent == InitConcurrent /\ [][NextConcurrent]_vars

\* ingestion alone, from the empty store
InitIngest ==
    /\ collection = <<>>
    /\ full_documents = <<>>
    /\ ing = IngIdle
    /\ q = QIdle
    /\ traces = <<>>
    /\ metrics = <<>>
    /\ ck = CkIdle
    /\ saved_documents = <<>>
    /\ reader = NoSession

NextIngest ==
    \/ \E stories \in SeqsUpTo(IngestStories, MaxBatch) : PopulateStore(stories)
    \/ ProcessStory
    \/ \E stored \in BOOLEAN, mode \in DuplicateModes : AddBatch(stored, mode)
    \/ PopulateReturn

SpecIngest == InitIngest /\ [][NextIngest]_vars

\* one populate_store call on an empty store, with stories that fail and batches
NextBatches ==
    \/ \E stories \in SeqsUpTo(BatchStories, MaxBatch) :
           ing.pc = "idle" /\ PopulateStore(stories)
    \/ ProcessStory
    \/ \E stored \in BOOLEAN, mode \in DuplicateModes : AddBatch(stored, mode)
    \/ PopulateReturn

SpecBatches == InitIngest /\ [][NextBatches]_vars

\* chunk_text alone
NextChunk ==
    \/ \E text \in Texts, chunk_size \in 0..MaxChunk, overlap \in 0..MaxOverlap :
           ChunkTextCall(text, chunk_size, overlap)
    \/ ChunkTextLoop

SpecChunk == InitIngest /\ [][NextChunk]_vars

----
(* Claims about ingestion, checked under SpecIngest. *)

RECURSIVE CountNewDocs(_, _)
CountNewDocs(stories, known) ==
    IF stories = <<>> THEN 0
    ELSE (IF Head(stories).url \in known THEN 0
          ELSE Len(CreateDocumentsFromStory(Head(stories))))
         + CountNewDocs(Tail(stories), known)

TextsOf(docs) == [i \in DOMAIN docs |-> docs[i].page_content]

StoredTexts(coll, url) ==
    LET hits == SelectSeq(coll, LAMBDA r : r.metadata.source = url)
    IN  [i \in DOMAIN hits |-> hits[i].text]

DistinctUrls(stories) ==
    \A i, j \in DOMAIN stories : i # j => stories[i].url # stories[j].url

\* every story of the call with an ingested URL is the story ingested under that URL
Reingested(stories, known) ==
    \A i \in DOMAIN stories :
        stories[i].url \in DOMAIN known => known[stories[i].url] = stories[i]

\* C2: upsert is idempotent per URL.  When a populate_store call has returned whose
\* stories have pairwise distinct URLs and are, where their URL was ingested before,
\* the very story ingested before, and no batch ever failed to store, then the chunk
\* count has grown only by the chunks of the stories with a new URL (ingesting a story
\* again leaves the count unchanged), and the chunks stored for every story of the call
\* are exactly the chunks of this ingestion.
C2_UpsertIdempotent ==
    (/\ ing.pc = "done"
     /\ ~ing.failed
     /\ DistinctUrls(ing.stories)
     /\ Reingested(ing.stories, ing.known_before)) =>
        /\ Len(collection)
               = ing.count_before + CountNewDocs(ing.stories, DOMAIN ing.known_before)
        /\ \A i \in DOMAIN ing.stories :
               StoredTexts(collection, ing.stories[i].url)
                   = TextsOf(CreateDocumentsFromStory(ing.stories[i]))

----
(* Claims about query, checked under Spec. *)

Finished == q.pc \in {"returned", "raised"}
Retrieved == q.pc \in {"generate", "returned"}

\* C1 as claimed: on a store without chunks a query with the default config ends by
\* raising, and makes no chat-completion call.
C1_EmptyIndexRaises ==
    (collection = <<>> /\ q.config = DefaultConfig /\ Finished) =>
        (q.pc = "raised" /\ q.gen_calls = 0)

\* C1 amended: on a store without chunks a query with the default config never
\* raises: it retrieves nothing, makes one chat-completion call (with an empty context
\* block) and returns a response without sources.
C1_EmptyIndexAnswers ==
    (collection = <<>> /\ q.config = DefaultConfig /\ q.pc # "idle") =>
        /\ q.pc # "raised"
        /\ Retrieved => q.documents = <<>>
        /\ q.pc = "returned" =>
               /\ q.gen_calls = 1
               /\ q.response.sources = <<>>
               /\ q.response.context_length = 0

C1_Witness ==
    /\ collection = <<>>
    /\ q.config = DefaultConfig
    /\ q.pc = "returned"
    /\ q.gen_calls = 1
    /\ q.searches = <<TRUE>>

SemanticConfig(config) == [config EXCEPT !.retrieval_method = "semantic"]

\* the agent's loop has ended without a document and the fallback has run
FellBack ==
    /\ q.config.strategy = "agentic"
    /\ Retrieved
    /\ q.all_documents = <<>>

\* C3 as claimed: an agentic retrieval whose steps retrieved no document returns the
\* result of naive retrieval for the question with retrieval_method = semantic,
\* whatever the config's retrieval_method.
C3_FallbackIsSemantic ==
    FellBack =>
        q.documents = NaiveRetrieval(collection, q.question, SemanticConfig(q.config),
                                     q.searches[Len(q.searches)])

\* C3 amended: an agentic retrieval whose steps retrieved no document returns the
\* result of naive retrieval for the question with the config as the caller gave it
\* (its retrieval_method included).
C3_FallbackIsNaive ==
    FellBack =>
        q.documents = NaiveRetrieval(collection, q.question, q.config,
                                     q.searches[Len(q.searches)])

C3_Witness ==
    /\ FellBack
    /\ q.config.retrieval_method = "keyword"
    /\ q.documents # <<>>
    /\ q.documents # SimilaritySearch(collection, q.question, q.config.top_k, TRUE)

\* C4 as claimed: with a strategy that is none of the four, the documents handed to
\* the response are the semantic hits for the question, whatever the config's
\* retrieval_method.
C4_UnknownIsSemantic ==
    (q.config.strategy = "other" /\ Retrieved) =>
        q.documents = SimilaritySearch(collection, q.question, q.config.top_k,
                                       q.searches[1])

\* C4 amended: with a strategy that is none of the four, the documents handed to the
\* response are those of naive retrieval with the config's own retrieval_method.
C4_UnknownIsNaive ==
    (q.config.strategy = "other" /\ Retrieved) =>
        q.documents = NaiveRetrieval(collection, q.question, q.config, q.searches[1])

C4_Witness ==
    /\ q.config.strategy = "other"
    /\ q.config.retrieval_method = "keyword"
    /\ q.pc = "generate"
    /\ q.searches = <<TRUE>>
    /\ q.documents # SimilaritySearch(collection, q.question, q.config.top_k, TRUE)

MetricsOf(trace_id) == SelectSeq(metrics, LAMBDA m : m.trace_id = trace_id)

\* C5: once start_trace has returned the query's trace id, the tracker has taken no
\* end_trace and no log_error for that id while the query runs, exactly one end_trace
\* and no log_error when the query has returned (whether or not the searches and the
\* chat-completion call failed), and exactly one log_error and no end_trace when the
\* query has raised.
C5_OneEndPerTrace ==
    q.pc # "idle" =>
        /\ q.trace_id \in DOMAIN traces
        /\ ~Finished =>
               /\ MetricsOf(q.trace_id) = <<>>
               /\ traces[q.trace_id] = "started"
        /\ q.pc = "returned" =>
               /\ MetricsOf(q.trace_id) = <<[trace_id |-> q.trace_id, success |-> TRUE]>>
               /\ traces[q.trace_id] = "completed"
        /\ q.pc = "raised" =>
               /\ MetricsOf(q.trace_id) = <<[trace_id |-> q.trace_id, success |-> FALSE]>>
               /\ traces[q.trace_id] = "error"

C5_Witness ==
    /\ q.pc = "raised"
    /\ Len(metrics) = 1
    /\ traces[q.trace_id] = "error"

\* C6: whatever the planning call does (it fails, returns text that is no JSON, or
\* returns JSON of any shape), agentic retrieval goes on to its loop and the query does
\* not raise.
C6_PlanningNeverAborts ==
    (q.config.strategy = "agentic" /\ q.plan # NoPlan) => q.pc # "raised"

\* C7: a failing chat-completion call for the answer does not make query raise: query
\* returns a response whose answer is the error text, whose tokens_used is 0 and whose
\* sources are the source URLs of the retrieved documents, in order; and a query that
\* has raised did so inside its retrieval strategy (the agent's, before any document
\* was handed to the answering call).
C7_GenerationFailureReturns ==
    /\ (q.pc = "returned" /\ q.response.answer = "error") =>
           /\ q.response.tokens_used = 0
           /\ q.response.sources = SourcesOf(q.documents)
    /\ q.pc = "raised" =>
           /\ q.config.strategy = "agentic"
           /\ q.response = NoResponse
           /\ q.documents = <<>>
           /\ q.gen_calls = 1

C7_Witness ==
    /\ q.pc = "returned"
    /\ q.response.answer = "error"
    /\ q.documents # <<>>
    /\ q.response.sources # <<>>

\* word-set Jaccard similarity of two texts greater than 0.8 (= 4/5)
NearDuplicates(text1, text2) ==
    LET words1 == {Lower(text1[i]) : i \in DOMAIN text1}
        words2 == {Lower(text2[i]) : i \in DOMAIN text2}
    IN  /\ words1 \cup words2 # {}
        /\ 5 * Cardinality(words1 \cap words2) > 4 * Cardinality(words1 \cup words2)

\* what _hybrid_retrieval deduplicates: the naive hits, then the parent documents
HybridCandidates ==
    NaiveRetrieval(collection, q.question, q.config, q.searches[1])
        \o ParentDocumentRetrieval(collection, full_documents, q.question, q.config,
                                   q.searches[1])

\* C8: the documents the hybrid strategy retrieves are at most top_k, and no two of
\* them have a word-set Jaccard similarity (lower-cased words) greater than 0.8.
C8_HybridNoNearDuplicates ==
    (q.config.strategy = "hybrid" /\ Retrieved) =>
        /\ Len(q.documents) <= q.config.top_k
        /\ \A i, j \in DOMAIN q.documents :
               i < j => ~NearDuplicates(q.documents[i].page_content,
                                        q.documents[j].page_content)

C8_Witness ==
    /\ q.config.strategy = "hybrid"
    /\ q.pc = "generate"
    /\ Len(q.documents) >= 2
    /\ \E i, j \in DOMAIN HybridCandidates :
           /\ i < j
           /\ j <= q.config.top_k
           /\ HybridCandidates[i].page_content # HybridCandidates[j].page_content
           /\ NearDuplicates(HybridCandidates[i].page_content,
                             HybridCandidates[j].page_content)

TextsDistinct(docs) ==
    \A i, j \in DOMAIN docs : i < j => docs[i].page_content # docs[j].page_content

\* the hits of the two searches of naive retrieval with retrieval_method hybrid
SemanticHalf ==
    SimilaritySearch(collection, q.question, q.config.top_k \div 2, q.searches[1])

KeywordHalf ==
    KeywordSearch(collection, q.question, q.config.top_k \div 2, q.searches[1])

\* the documents of hits whose text no earlier hit has, in the order of hits
RECURSIVE FirstEncounters(_, _)
FirstEncounters(hits, i) ==
    IF i > Len(hits) THEN <<>>
    ELSE (IF \E j \in 1..(i - 1) : hits[j].page_content = hits[i].page_content
          THEN <<>> ELSE <<hits[i]>>) \o FirstEncounters(hits, i + 1)

NaiveHybrid ==
    /\ q.config.strategy \in {"naive", "other"}
    /\ q.config.retrieval_method = "hybrid"
    /\ Retrieved

\* C9: naive retrieval with retrieval_method hybrid returns at most top_k documents,
\* no text twice, in first-encounter order: the semantic hits, then the keyword hits
\* whose text was not met before.
C9_NaiveHybridMerge ==
    NaiveHybrid =>
        /\ Len(q.documents) <= q.config.top_k
        /\ TextsDistinct(q.documents)
        /\ q.documents
               = SubSeq(FirstEncounters(SemanticHalf \o KeywordHalf, 1), 1,
                        Min(q.config.top_k,
                            Len(FirstEncounters(SemanticHalf \o KeywordHalf, 1))))

C9_Witness ==
    /\ NaiveHybrid
    /\ q.documents # <<>>
    /\ \E i \in DOMAIN SemanticHalf, j \in DOMAIN KeywordHalf :
           SemanticHalf[i].page_content = KeywordHalf[j].page_content

\* C10 as claimed: the documents the naive strategy retrieves never hold a text twice,
\* for every retrieval_method.
C10_NaiveTextsDistinct ==
    (q.config.strategy = "naive" /\ Retrieved) => TextsDistinct(q.documents)

\* C10 amended: the naive strategy removes repeated texts only for retrieval_method
\* hybrid; for semantic and for keyword it returns the hits of the one search as the
\* index gives them, repeated texts (stored under different URLs) included.
C10_NaiveDedupOnlyHybrid ==
    (q.config.strategy = "naive" /\ Retrieved) =>
        /\ q.config.retrieval_method = "hybrid" => TextsDistinct(q.documents)
        /\ q.config.retrieval_method = "semantic" =>
               q.documents = SimilaritySearch(collection, q.question, q.config.top_k,
                                              q.searches[1])
        /\ q.config.retrieval_method = "keyword" =>
               q.documents = KeywordSearch(collection, q.question, q.config.top_k,
                                           q.searches[1])

C10_Witness ==
    /\ q.config.strategy = "naive"
    /\ q.config.retrieval_method = "semantic"
    /\ q.pc = "generate"
    /\ \E i, j \in DOMAIN q.documents :
           /\ i < j
           /\ q.documents[i].page_content = q.documents[j].page_content
           /\ q.documents[i].metadata.source # q.documents[j].metadata.source

\* an agentic query that has its plan and runs with the threshold 0.7
AgenticAtSeven ==
    /\ q.config.strategy = "agentic"
    /\ q.config.agent_confidence_threshold = 7
    /\ q.plan # NoPlan
    /\ q.pc # "raised"

----
(* Claims about chunk_text, checked under SpecChunk. *)

\* C12 as claimed: for every text no longer than chunk_size, the empty text included,
\* chunk_text returns exactly one chunk, equal to the text.
C12_ShortTextOneChunk ==
    (ck.pc = "done" /\ Len(ck.text) <= ck.chunk_size) => ck.chunks = <<ck.text>>

\* C12 amended: for every non-empty text no longer than chunk_size chunk_text returns
\* exactly one chunk, equal to the text character for character (not stripped); for
\* the empty text it returns the empty sequence.
C12_ShortTextVerbatim ==
    (ck.pc = "done" /\ Len(ck.text) <= ck.chunk_size) =>
        /\ ck.text # <<>> => (Len(ck.chunks) = 1 /\ ck.chunks[1] = ck.text)
        /\ ck.text = <<>> => ck.chunks = <<>>
        /\ ck.spans = <<>>

C12_Witness ==
    /\ ck.pc = "done"
    /\ Len(ck.text) = ck.chunk_size
    /\ Len(ck.text) >= 2
    /\ ck.text[1] \in Whitespace
    /\ ck.chunks = <<ck.text>>

\* position p of the text (counted from 0) lies in the span of some iteration
Covered(p) == \E i \in DOMAIN ck.spans : ck.spans[i][1] <= p /\ p < ck.spans[i][2]

\* C13: for every text and every overlap < chunk_size, when chunk_text has returned
\* from its loop every character of the text that is no blank lies in the slice
\* text[start:end] of some iteration, hence in a returned chunk: no character is
\* skipped between the end of one chunk and the start of the next.
C13_NoGaps ==
    (ck.pc = "done" /\ ck.spans # <<>> /\ ck.overlap < ck.chunk_size) =>
        \A p \in 0..(Len(ck.text) - 1) :
            ck.text[p + 1] \notin Whitespace => Covered(p)

\* C14: chunk_text terminates for every text and every chunk_size >= 1, whether
\* overlap is smaller than, equal to or larger than chunk_size: every iteration of the
\* loop strictly increases start, the loop runs only while start < len(text), and so
\* it has made at most start iterations.
C14_StartAdvances ==
    /\ [][ck.pc = "loop" => ck'.start > ck.start]_vars
    /\ [](ck.pc = "loop" => (ck.start < Len(ck.text) /\ Len(ck.spans) <= ck.start))

C14_Witness ==
    /\ ck.pc = "done"
    /\ ck.chunk_size >= 1
    /\ ck.overlap > ck.chunk_size
    /\ Len(ck.spans) >= 2
    /\ ck.start >= Len(ck.text)

\* C22: for a text longer than chunk_size and an overlap > 0 the chunks overlap: every
\* iteration after the first starts before the end position of the iteration before.
C22_ChunksOverlap ==
    (ck.pc = "done" /\ Len(ck.text) > ck.chunk_size /\ ck.chunk_size >= 1
         /\ ck.overlap > 0) =>
        \A i \in 1..(Len(ck.spans) - 1) : ck.spans[i + 1][1] < ck.spans[i][2]

\* C23: every chunk chunk_text returns from its loop has at most chunk_size characters,
\* for every text and every chunk_size >= 1.
C23_ChunkWithinSize ==
    (ck.pc = "done" /\ ck.chunk_size >= 1) =>
        \A i \in DOMAIN ck.chunks :
            ck.spans # <<>> => Len(ck.chunks[i]) <= ck.chunk_size

----
(* Claims about partial failure of ingestion, checked under SpecBatches. *)

NumBatches(n) == (n + BatchSize - 1) \div BatchSize

\* the ids of the k-th batch of the call in progress
BatchIdsOf(k) ==
    LET ids == DocIds(ing.all_documents)
    IN  {ids[n] : n \in ((k - 1) * BatchSize + 1)..Min(k * BatchSize, Len(ids))}

StoriesPassed == ing.pc = "done" \/ (ing.pc = "stories" /\ ing.i > Len(ing.stories))

\* C15: a story whose processing raises and a batch whose collection.add raises do not
\* end populate_store.  Once the loop over the stories is over, the documents of every
\* story of the call were made and every story with a URL is kept as full document;
\* once the call has returned, every batch of the call was handed to collection.add,
\* and the chunks of every batch whose add returned are stored.
C15_PartialFailureTolerated ==
    /\ StoriesPassed =>
           /\ ing.all_documents = AllDocuments(ing.stories)
           /\ \A i \in DOMAIN ing.stories :
                  "url" \in DOMAIN ing.stories[i] =>
                      /\ ing.stories[i].url \in DOMAIN full_documents
                      /\ full_documents[ing.stories[i].url] = ing.stories[i]
    /\ ing.pc = "done" =>
           /\ Len(ing.added) = NumBatches(Len(ing.all_documents))
           /\ \A k \in DOMAIN ing.added :
                  ing.added[k] => BatchIdsOf(k) \subseteq IdsOf(collection)

C15_Witness ==
    /\ ing.pc = "done"
    /\ Len(ing.added) = 2
    /\ ~ing.added[1]
    /\ ing.added[2]
    /\ Len(collection) = 2
    /\ Len(ing.stories) = 2
    /\ "url" \notin DOMAIN ing.stories[1]
    /\ ing.stories[2].url \in DOMAIN full_documents

----
(* Further claims about query, checked under Spec. *)

\* a query whose documents are the hits of one similarity_search or keyword_search
OneSearch ==
    /\ q.config.strategy \in {"naive", "other"}
    /\ q.config.retrieval_method \in {"semantic", "keyword"}
    /\ q.pc # "idle"

StoredDocuments == {Document(collection[i].text, collection[i].metadata) : i \in DOMAIN collection}

\* C16: similarity_search and keyword_search propagate no error and return a sequence
\* of at most min(k, chunk count) stored chunks, the empty sequence when the index is
\* empty and whenever the collection query fails: a query that retrieves with one such
\* search never raises, and its documents are as said (k = top_k).
C16_SearchNeverRaises ==
    OneSearch =>
        /\ q.pc # "raised"
        /\ Retrieved =>
               /\ Len(q.documents) <= Min(q.config.top_k, Len(collection))
               /\ \A i \in DOMAIN q.documents : q.documents[i] \in StoredDocuments
               /\ (collection = <<>> \/ ~q.searches[1]) => q.documents = <<>>
               /\ (collection # <<>> /\ q.searches[1]) =>
                      Len(q.documents) = Min(q.config.top_k, Len(collection))

C16_Witness ==
    /\ OneSearch
    /\ q.config.retrieval_method = "keyword"
    /\ q.pc = "returned"
    /\ q.searches = <<FALSE>>
    /\ Len(collection) > q.config.top_k
    /\ q.documents = <<>>

\* C18: in every response, whether the chat-completion call succeeded or failed,
\* sources has one entry per retrieved document, the document's source URL, in
\* retrieval order with repeated URLs kept, and context_length is the length of the
\* context block made from exactly these documents.
C18_SourcesAndContext ==
    q.pc = "returned" =>
        /\ Len(q.response.sources) = Len(q.documents)
        /\ \A i \in DOMAIN q.documents :
               q.response.sources[i] = q.documents[i].metadata.source
        /\ q.response.context_length = Len(PrepareContext(q.documents))

C18_Witness ==
    /\ q.pc = "returned"
    /\ q.response.answer = "error"
    /\ q.response.context_length > 0
    /\ \E i, j \in DOMAIN q.response.sources :
           i < j /\ q.response.sources[i] = q.response.sources[j]

\* the action the fixed policy gives for a step index and a plan complexity
PolicyAction(step, complexity, question) ==
    IF step = 0
    THEN [type |-> "retrieve_semantic", query |-> question, confidence |-> 5]
    ELSE IF step >= 2 THEN [type |-> "stop", confidence |-> 9]
    ELSE IF complexity = "complex"
    THEN [type |-> "retrieve_parent", query |-> question, confidence |-> 7]
    ELSE [type |-> "retrieve_semantic", query |-> question, confidence |-> 6]

AgentRuns ==
    /\ q.config.strategy = "agentic"
    /\ q.plan # NoPlan
    /\ HasReasoning(q.plan)

\* C20: the agent's decision is the fixed policy of the step index and the plan's
\* complexity: it is the same for the scratchpad of the run and the empty one, for
\* the config of the run and the default one, for the plan's sub_queries and others;
\* and every step the run has made took the action of the policy.
C20_FixedPolicy ==
    AgentRuns =>
        /\ \A step \in 0..MaxSteps :
           \A scratchpad \in {q.scratchpad, <<>>} :
           \A config \in {q.config, DefaultConfig} :
           \A plan \in {q.plan, [q.plan EXCEPT !.fields.sub_queries = <<<<"x">>>>]} :
               AgentDecideAction(q.question, plan, scratchpad, step, config)
                   = PolicyAction(step, Complexity(q.plan), q.question)
        /\ \A i \in DOMAIN q.scratchpad :
               q.scratchpad[i].action
                   = PolicyAction(i - 1, Complexity(q.plan), q.question).type

C20_Witness ==
    /\ AgentRuns
    /\ q.config # DefaultConfig
    /\ Len(q.scratchpad) = 2
    /\ q.scratchpad[1].action = "retrieve_semantic"
    /\ q.scratchpad[1].docs_found >= q.config.top_k
    /\ q.scratchpad[2].action = "retrieve_parent"

----
(* Claims about blocking, checked under SpecBlocking. *)

\* C17: no query blocks for ever: also when a search of the index never responds,
\* every query that was started eventually returns a response or raises.
C17_QueryEventuallyEnds == (q.pc # "idle") ~> Finished

----
(* Claims about parent_document retrieval, checked under SpecParent. *)

\* the top_k * 2 semantic hits of the query
ParentHitsOfQuery ==
    SimilaritySearch(collection, q.question, q.config.top_k * 2, q.searches[1])

\* the URLs of the hits that are not empty and have a full document
EligibleUrls ==
    ({ParentHitsOfQuery[i].metadata.source : i \in DOMAIN ParentHitsOfQuery}
         \cap DOMAIN full_documents) \ {""}

\* the rank of the first hit of the URL
FirstRank(u) ==
    CHOOSE i \in DOMAIN ParentHitsOfQuery :
        /\ ParentHitsOfQuery[i].metadata.source = u
        /\ \A j \in 1..(i - 1) : ParentHitsOfQuery[j].metadata.source # u

\* C19: parent_document retrieval returns at most top_k documents, each the full
\* document (content_type full_document) of a URL that some hit among the top_k * 2
\* semantic hits carries, that is not empty and that has a full document; no URL
\* twice; in the order of the first hit of each URL; and as many as there are such
\* URLs, up to top_k, those of the best first hits.
C19_ParentDocuments ==
    (q.config.strategy = "parent_document" /\ Retrieved) =>
        LET urls == [i \in DOMAIN q.documents |-> q.documents[i].metadata.source]
        IN  /\ Len(q.documents) = Min(q.config.top_k, Cardinality(EligibleUrls))
            /\ \A i \in DOMAIN urls :
                   /\ urls[i] \in EligibleUrls
                   /\ q.documents[i] = GetFullDocument(full_documents, urls[i])
                   /\ q.documents[i].metadata.content_type = "full_document"
            /\ \A i, j \in DOMAIN urls :
                   i < j => (urls[i] # urls[j] /\ FirstRank(urls[i]) < FirstRank(urls[j]))
            /\ \A u \in EligibleUrls :
                   (\A i \in DOMAIN urls : urls[i] # u) =>
                       \A i \in DOMAIN urls : FirstRank(urls[i]) < FirstRank(u)

C19_Witness ==
    /\ q.config.strategy = "parent_document"
    /\ q.pc = "generate"
    /\ q.documents # <<>>
    /\ \E i \in DOMAIN ParentHitsOfQuery : ParentHitsOfQuery[i].metadata.source = ""
    /\ \E i \in DOMAIN ParentHitsOfQuery :
           /\ ParentHitsOfQuery[i].metadata.source # ""
           /\ ParentHitsOfQuery[i].metadata.source \notin DOMAIN full_documents
    /\ \E i, j \in DOMAIN ParentHitsOfQuery :
           /\ i < j
           /\ ParentHitsOfQuery[i].metadata.source = ParentHitsOfQuery[j].metadata.source
           /\ ParentHitsOfQuery[i].metadata.source \in EligibleUrls

----
(* Claims about the agent's result, checked under Spec. *)

\* the documents the i-th step of the run retrieved (i counted from 1)
StepDocs(i) ==
    ExecuteAction(collection, full_documents, q.question,
                  PolicyAction(i - 1, Complexity(q.plan), q.question), q.config,
                  q.searches[i])

RECURSIVE StepDocsUpTo(_)
StepDocsUpTo(n) == IF n = 0 THEN <<>> ELSE StepDocsUpTo(n - 1) \o StepDocs(n)

\* C21: after every step of the agent's loop the accumulated documents hold no text
\* twice, are in the order of their first retrieval across the steps, and are at most
\* top_k * 2; when at least one document was retrieved, the agentic result is this
\* sequence cut to top_k * 2, so it has the same three properties.
C21_AgenticAccumulation ==
    (AgentRuns /\ q.pc # "raised") =>
        /\ TextsDistinct(q.all_documents)
        /\ Len(q.all_documents) <= q.config.top_k * 2
        /\ q.all_documents = FirstEncounters(StepDocsUpTo(q.step), 1)
        /\ (Retrieved /\ q.all_documents # <<>>) =>
               /\ q.documents = SubSeq(q.all_documents, 1,
                                       Min(q.config.top_k * 2, Len(q.all_documents)))
               /\ TextsDistinct(q.documents)
               /\ Len(q.documents) <= q.config.top_k * 2

C21_Witness ==
    /\ AgentRuns
    /\ q.pc = "generate"
    /\ q.step = 2
    /\ q.documents # <<>>
    /\ q.scratchpad[1].docs_found > 0
    /\ q.scratchpad[2].docs_found > 0
    /\ Len(q.all_documents) < q.scratchpad[1].docs_found + q.scratchpad[2].docs_found

----
(* Claims about the store under ingestion and queries, checked under SpecConcurrent. *)

\* C24: no step of populate_store and no step of a query changes or removes a stored
\* chunk: every chunk of the collection is, after the step, at its place with its id,
\* text and metadata, and the chunk count does not go down.
C24_ChunksImmutable ==
    [][/\ Len(collection') >= Len(collection)
       /\ \A i \in DOMAIN collection : collection'[i] = collection[i]]_vars

C24_Witness ==
    /\ ing.pc = "done"
    /\ ing.stories = <<StoryC>>
    /\ ing.added = <<TRUE>>
    /\ q.pc = "returned"
    /\ full_documents["u1"] = StoryC
    /\ \E i \in DOMAIN collection :
           collection[i].id = GenerateDocId("u1", 0) /\ collection[i].text = TFuelUp

----
(* Claims about the store during a query, checked under Spec. *)

\* C25: no step of a query, whatever its strategy and its outcome, changes the
\* collection or the full-document map; so the documents a non-agentic query has
\* retrieved are the ones the store it leaves behind gives for its question and config.
C25_QueryLeavesIndex ==
    [][/\ collection' = collection
       /\ full_documents' = full_documents
       /\ (q'.pc = "generate" /\ q'.config.strategy # "agentic") =>
              q'.documents = Retrieve(collection', full_documents', q'.question,
                                      q'.config, q'.searches[1])]_vars

C25_Witness ==
    /\ Finished
    /\ q.config.strategy = "parent_document"
    /\ q.searches = <<TRUE>>
    /\ q.documents # <<>>
    /\ \E i \in DOMAIN q.documents : q.documents[i].metadata.content_type = "full_document"

----
(* Claims about the agent's loop bound, checked under Spec. *)

\* the outcome of the n-th search of the run (of a search the run did not make: success)
OkAt(n) == IF n \in DOMAIN q.searches THEN q.searches[n] ELSE TRUE

\* the documents a loop of at most max_agent_steps iterations accumulates from
\* iteration step on, on the store, question, plan and search outcomes of the run
RECURSIVE LoopDocs(_, _, _)
LoopDocs(max_agent_steps, step, all_documents) ==
    IF step >= max_agent_steps THEN all_documents
    ELSE LET action == PolicyAction(step, Complexity(q.plan), q.question)
         IN  IF action.type = "stop" THEN all_documents
             ELSE LET docs == ExecuteAction(collection, full_documents, q.question, action,
                                            q.config, OkAt(step + 1))
                      added == FirstEncounters(all_documents \o docs, 1)
                  IN  IF action.confidence >= q.config.agent_confidence_threshold
                      THEN added
                      ELSE LoopDocs(max_agent_steps, step + 1, added)

\* what a run with that max_agent_steps returns
ResultFor(max_agent_steps) ==
    LET all_documents == LoopDocs(max_agent_steps, 0, <<>>)
    IN  IF all_documents # <<>> THEN Take(all_documents, q.config.top_k * 2)
        ELSE NaiveRetrieval(collection, q.question, q.config, OkAt(Len(q.searches)))

\* C26: an agentic run searches the index in at most two iterations of its loop, the
\* iterations 0 and 1, whatever max_agent_steps and the threshold are; so with
\* max_agent_steps >= 2 the documents it returns are the ones a run with any other
\* max_agent_steps >= 2 returns.
C26_TwoSearchSteps ==
    (AgentRuns /\ Retrieved) =>
        /\ Len(q.scratchpad) <= 2
        /\ \A i \in DOMAIN q.scratchpad : q.scratchpad[i].step = i
        /\ q.config.max_agent_steps >= 2 =>
               \A max_agent_steps \in 2..(MaxSteps + 2) :
                   q.documents = ResultFor(max_agent_steps)

C26_Witness ==
    /\ AgentRuns
    /\ q.pc = "returned"
    /\ q.config.max_agent_steps = MaxSteps
    /\ q.config.agent_confidence_threshold = 10
    /\ Len(q.scratchpad) = 2
    /\ q.documents # <<>>
    /\ ResultFor(1) # q.documents

----
(* Claims about reflection, checked under Spec. *)

\* the config of the run with enable_reflection the other way
OtherReflection == [q.config EXCEPT !.enable_reflection = ~@]

\* C27: enable_reflection does not influence what an agentic run returns: the run with
\* the flag the other way, on the same store, question, plan and search outcomes,
\* returns the same sequence of documents; and the cap of top_k * 2 removes nothing,
\* since the loop accumulates at most top_k * 2 documents.
C27_ReflectionNoInfluence ==
    (AgentRuns /\ Retrieved) =>
        /\ q.documents = AgenticResult(collection, q.question, OtherReflection,
                                       q.all_documents, OkAt(Len(q.searches)))
        /\ Len(q.all_documents) <= q.config.top_k * 2
        /\ q.all_documents # <<>> => q.documents = q.all_documents

C27_Witness ==
    /\ AgentRuns
    /\ q.pc = "returned"
    /\ q.config.enable_reflection
    /\ q.config.top_k >= 2
    /\ Len(q.all_documents) > q.config.top_k
    /\ q.documents = q.all_documents

----
(* Claims about the precedence of the naive results in the hybrid strategy, checked
   under Spec. *)

\* what naive retrieval gives for the query
NaiveResults == NaiveRetrieval(collection, q.question, q.config, q.searches[1])

\* naive retrieval gives top_k chunks, no two of them near-duplicates
NaiveFillsTopK ==
    /\ Len(NaiveResults) = q.config.top_k
    /\ \A i, j \in DOMAIN NaiveResults :
           i < j => ~NearDuplicates(NaiveResults[i].page_content,
                                    NaiveResults[j].page_content)

\* C28: in the hybrid strategy, when naive retrieval returns top_k chunks that are
\* pairwise not near-duplicates (Jaccard <= 0.8), the result is the naive result,
\* document for document, and holds no full document.
C28_NaivePrecedence ==
    (q.config.strategy = "hybrid" /\ Retrieved /\ NaiveFillsTopK) =>
        /\ q.documents = NaiveResults
        /\ \A i \in DOMAIN q.documents :
               q.documents[i].metadata.content_type # "full_document"

C28_Witness ==
    /\ q.config.strategy = "hybrid"
    /\ q.pc = "returned"
    /\ NaiveFillsTopK
    /\ q.config.top_k >= 2
    /\ ParentDocumentRetrieval(collection, full_documents, q.question, q.config,
                               q.searches[1]) # <<>>
    /\ q.documents = NaiveResults

----
(* Claims about a reader during ingestion, checked under SpecConcurrent. *)

\* C29: while a populate_store call is interleaved with the queries of a reader, every
\* chunk of the collection with a non-empty source URL has its story in the full
\* documents the reader looks the source up in.
C29_ReaderSeesParents ==
    reader.loaded =>
        \A i \in DOMAIN collection :
            collection[i].metadata.source # "" =>
                collection[i].metadata.source \in DOMAIN reader.full_documents

----
(* Claims about the size of the naive result, checked under Spec. *)

\* C30: on a store with chunks and a search that works, naive retrieval with
\* top_k >= 1 returns at least one chunk, whatever the retrieval_method is.
C30_NaiveNeverEmpty ==
    (/\ q.config.strategy = "naive"
     /\ Retrieved
     /\ collection # <<>>
     /\ q.searches = <<TRUE>>
     /\ q.config.top_k >= 1) => q.documents # <<>>
====
